---- MODULE Spec2Model ----
(***************************************************************************)
(* Option-strategy payoff and Monte Carlo module (futures_optionss.py).    *)
(*                                                                         *)
(* Numbers.  Prices and strikes are whole points.  Premiums and payoffs    *)
(* are fixed-point, in tenths of a point, so that the builder's factors    *)
(* 0.3, 0.5, 0.6, 0.7, 0.9 are exact.  Breakevens, means and medians are   *)
(* exact fractions [num, den] in lowest terms with den > 0; den = 0 is     *)
(* numpy's nan.  Rates (mu, sigma), years and exponents of the simulator   *)
(* are fixed-point in 1/10000.                                             *)
(***************************************************************************)
EXTENDS Integers, Sequences, FiniteSets, TLC

VARIABLES
    op,         \* the call that produced the current state
    status,     \* "ok", or the name of the exception the call raised
    S,          \* price array handed to combined_payoff / breakevens
    legs,       \* list of legs handed to, or built by, the call
    inp,        \* build_strategy_from_radio arguments
    label,      \* label returned by build_strategy_from_radio
    payoff,     \* array returned by combined_payoff (tenths)
    bes,        \* list returned by breakevens (fractions of a point)
    rng,        \* state of the process-wide generator np.random
    rng0,       \* rng when the current call was entered
    mcArgs,     \* simulate_ST / expected_metrics_via_mc arguments
    ST,         \* array returned by simulate_ST
    sim_payoffs,\* expected_metrics_via_mc's per-sample payoffs (tenths)
    metrics,    \* record returned by expected_metrics_via_mc
    ref         \* one expected_metrics_via_mc call kept for comparison: its arguments
                \* and result, and whether it is the current call (own)

vars == <<op, status, S, legs, inp, label, payoff, bes,
          rng, rng0, mcArgs, ST, sim_payoffs, metrics, ref>>

pureVars == <<S, legs, inp, label, payoff, bes>>
mcVars == <<rng, rng0, mcArgs, ST, sim_payoffs, metrics, ref>>

----------------------------------------------------------------------------
(* Bounds *)

MaxLegs == 2        \* legs in a list handed to combined_payoff directly
MaxGrid == 6        \* points of a price grid

----------------------------------------------------------------------------
(* Arithmetic helpers *)

Max(a, b) == IF a >= b THEN a ELSE b
Abs(a) == IF a >= 0 THEN a ELSE -a
Sign(a) == IF a > 0 THEN 1 ELSE IF a < 0 THEN -1 ELSE 0
ToTenths(x) == x * 10

RECURSIVE Gcd(_, _)
Gcd(a, b) == IF b = 0 THEN a ELSE Gcd(b, a % b)

\* the fraction n/d, d # 0, in lowest terms with a positive denominator
Frac(n, d) ==
    LET g == Gcd(Abs(n), Abs(d))
        s == IF d < 0 THEN -1 ELSE 1
    IN [num |-> s * (n \div g), den |-> s * (d \div g)]

NaN == [num |-> 0, den |-> 0]
NoMetrics == [ev |-> NaN, prob_profit |-> NaN, median |-> NaN, downside_pct |-> NaN]
FracLe(a, b) == a.num * b.den <= b.num * a.den
\* |a - x| <= h for a fraction a and integers x, h
FracNear(a, x, h) == Abs(a.num - x * a.den) <= h * a.den

----------------------------------------------------------------------------
(* Payoff model *)

\* np.sign
np_sign(a) == [i \in 1..Len(a) |-> Sign(a[i])]

\* np.diff
np_diff(a) == [i \in 1..(IF Len(a) = 0 THEN 0 ELSE Len(a) - 1) |-> a[i+1] - a[i]]

\* np.zeros_like
zeros_like(a) == [i \in 1..Len(a) |-> 0]

call_payoff_nolong(Sx, K, premium, qty, long) ==
    [i \in 1..Len(Sx) |-> (ToTenths(Max(Sx[i] - K, 0)) - premium) * qty]

call_payoff(Sx, K, premium, qty, long) ==
    [i \in 1..Len(Sx) |->
        LET p == ToTenths(Max(Sx[i] - K, 0)) - premium
        IN IF long THEN p * qty ELSE (-p) * qty]

put_payoff(Sx, K, premium, qty, long) ==
    [i \in 1..Len(Sx) |->
        LET p == ToTenths(Max(K - Sx[i], 0)) - premium
        IN IF long THEN p * qty ELSE (-p) * qty]

\* the loop body of combined_payoff: total += <leg's payoff>
RECURSIVE combined_loop(_, _, _)
combined_loop(total, Sx, ls) ==
    IF ls = <<>> THEN total
    ELSE LET leg == Head(ls)
             add == IF leg.type = "C"
                    THEN call_payoff(Sx, leg.K, leg.premium, leg.qty, leg.long)
                    ELSE put_payoff(Sx, leg.K, leg.premium, leg.qty, leg.long)
         IN combined_loop([i \in 1..Len(Sx) |-> total[i] + add[i]], Sx, Tail(ls))

combined_payoff(Sx, ls) == combined_loop(zeros_like(Sx), Sx, ls)

----------------------------------------------------------------------------
(* Breakeven finder *)

\* np.where(np.diff(signs) != 0)[0], as ascending 1-based indices
RECURSIVE where_nonzero(_, _)
where_nonzero(d, i) ==
    IF i > Len(d) THEN <<>>
    ELSE (IF d[i] # 0 THEN <<i>> ELSE <<>>) \o where_nonzero(d, i + 1)

breakeven_at(Sx, pay, i) ==
    LET x0 == Sx[i]
        x1 == Sx[i+1]
        y0 == pay[i]
        y1 == pay[i+1]
    IN IF y1 - y0 = 0 THEN Frac(x0, 1)
       ELSE Frac(x0 * (y1 - y0) - y0 * (x1 - x0), y1 - y0)

breakevens(Sx, pay) ==
    LET signs == np_sign(pay)
        idx == where_nonzero(np_diff(signs), 1)
    IN [k \in 1..Len(idx) |-> breakeven_at(Sx, pay, idx[k])]

----------------------------------------------------------------------------
(* Strategy builder *)

Leg(t, K, premium, qty, long) ==
    [type |-> t, K |-> K, premium |-> premium, qty |-> qty, long |-> long]

\* p * 0.d for a premium p in whole points, in tenths
Times(p, d) == p * d

make_straddle(K, p_call, p_put, qty) ==
    << Leg("C", K, ToTenths(p_call), qty, TRUE),
       Leg("P", K, ToTenths(p_put), qty, TRUE) >>

strangle_unclamped(K, p_call, p_put, qty) ==
    LET Kput == K - 400
        Kcall == K + 400
    IN [legs |-> << Leg("P", Kput, Times(p_put, 6), qty, TRUE),
                    Leg("C", Kcall, Times(p_call, 6), qty, TRUE) >>,
        label |-> "Long Strangle (" \o ToString(Kput) \o "/" \o ToString(Kcall) \o ")"]

build_strangle(K, p_call, p_put, qty) ==
    LET Kput == Max(1, K - 400)
        Kcall == K + 400
    IN [legs |-> << Leg("P", Kput, Times(p_put, 6), qty, TRUE),
                    Leg("C", Kcall, Times(p_call, 6), qty, TRUE) >>,
        label |-> "Long Strangle (" \o ToString(Kput) \o "/" \o ToString(Kcall) \o ")"]

build_iron_condor(K, p_call, p_put, qty) ==
    [legs |-> << Leg("P", K - 400, Times(p_put, 7), qty, FALSE),
                 Leg("P", K - 800, Times(p_put, 3), qty, TRUE),
                 Leg("C", K + 400, Times(p_call, 7), qty, FALSE),
                 Leg("C", K + 800, Times(p_call, 3), qty, TRUE) >>,
     label |-> "Iron Condor"]

bull_call_both_clamped(K, p_call, p_put, qty) ==
    LET width == 400
        K_buy == Max(1, K - (width \div 2))
        K_sell == Max(1, K + (width \div 2))
    IN [legs |-> << Leg("C", K_buy, Times(p_call, 9), qty, TRUE),
                    Leg("C", K_sell, Times(p_call, 5), qty, FALSE) >>,
        label |-> "Bull Call Spread (" \o ToString(K_buy) \o "->" \o ToString(K_sell) \o ")"]

build_bull_call_spread(K, p_call, p_put, qty) ==
    LET width == 400
        K_buy == Max(1, K - (width \div 2))
        K_sell == K_buy + width
    IN [legs |-> << Leg("C", K_buy, Times(p_call, 9), qty, TRUE),
                    Leg("C", K_sell, Times(p_call, 5), qty, FALSE) >>,
        label |-> "Bull Call Spread (" \o ToString(K_buy) \o "->" \o ToString(K_sell) \o ")"]

build_butterfly(K, p_call, p_put, qty) ==
    LET wing == 600
        K_low == K - wing
        K_mid == K
        K_high == K + wing
    IN [legs |-> << Leg("C", K_low, Times(p_call, 9), qty, TRUE),
                    Leg("C", K_mid, Times(p_call, 7), qty * 2, FALSE),
                    Leg("C", K_high, Times(p_call, 9), qty, TRUE) >>,
        label |-> "Long Butterfly (" \o ToString(K_low) \o "," \o ToString(K_mid)
                  \o "," \o ToString(K_high) \o ")"]

build_strategy_from_radio(strategy, K, p_call, p_put, qty) ==
    CASE strategy = "Straddle" ->
            [legs |-> make_straddle(K, p_call, p_put, qty), label |-> "Long Straddle"]
      [] strategy = "Strangle" -> build_strangle(K, p_call, p_put, qty)
      [] strategy = "IronCondor" -> build_iron_condor(K, p_call, p_put, qty)
      [] strategy = "BullCallSpread" -> build_bull_call_spread(K, p_call, p_put, qty)
      [] strategy = "Butterfly" -> build_butterfly(K, p_call, p_put, qty)
      [] OTHER ->
            [legs |-> make_straddle(K, p_call, p_put, qty), label |-> "Long Straddle"]

\* np.linspace(lo, hi, n), n >= 2, for bounds whose step is a whole point
linspace(lo, hi, n) == [i \in 1..n |-> lo + ((i - 1) * (hi - lo)) \div (n - 1)]

----------------------------------------------------------------------------
(* Price simulator.  np.random is one process-wide generator: seed(s) puts *)
(* it in a state fixed by s, each variate drawn steps it.  The generator   *)
(* is a small congruential one; a standard normal variate is read off the  *)
(* state it reaches, in tenths.                                            *)

np_random_seed(seed) == seed % 8
rng_step(g) == (5 * g + 3) % 8
rng_normal(g) == << -15, 8, -3, 0, 12, -9, 4, 20 >>[g + 1]

\* np.random.randn(n), n >= 0, from state g: the variates and the state reached
RECURSIVE np_random_randn(_, _)
np_random_randn(g, n) ==
    IF n = 0 THEN [z |-> <<>>, rng |-> g]
    ELSE LET g1 == rng_step(g)
             rest == np_random_randn(g1, n - 1)
         IN [z |-> <<rng_normal(g1)>> \o rest.z, rng |-> rest.rng]

\* floor of the square root, for np.sqrt in fixed point
RECURSIVE isqrt_between(_, _, _)
isqrt_between(x, lo, hi) ==
    IF lo >= hi THEN lo
    ELSE LET mid == (lo + hi + 1) \div 2
         IN IF mid * mid <= x THEN isqrt_between(x, mid, hi)
            ELSE isqrt_between(x, lo, mid - 1)
isqrt(x) == isqrt_between(x, 0, 40000)

\* np.sqrt and np.exp on numbers in 1/10000 (exp by its series to third order)
np_sqrt(x) == isqrt(x * 10000)
np_exp(x) ==
    LET half_sq == (x * x) \div 20000
    IN 10000 + x + half_sq + (half_sq * x) \div 30000

simulate_ST_noseed(g, S0, mu, sigma, T_days, n_sims, seed) ==
    LET T == (Max(T_days, 0) * 10000) \div 252
    IN IF T = 0 THEN [status |-> "ok", ST |-> <<S0>>, rng |-> g]
       ELSE IF n_sims < 0 THEN [status |-> "ValueError", ST |-> <<>>, rng |-> g]
       ELSE LET drift == ((mu - (sigma * sigma) \div 20000) * T) \div 10000
                draw == np_random_randn(g, n_sims)
                vol == (sigma * np_sqrt(T)) \div 10000
            IN [status |-> "ok",
                ST |-> [i \in 1..n_sims |->
                          (S0 * np_exp(drift + (vol * draw.z[i]) \div 10)) \div 10000],
                rng |-> draw.rng]

\* simulate_ST run with the global generator in state g: what it returns or
\* raises, and the state it leaves the generator in
simulate_ST(g, S0, mu, sigma, T_days, n_sims, seed) ==
    LET g0 == np_random_seed(seed)
        T == (Max(T_days, 0) * 10000) \div 252
    IN IF T = 0 THEN [status |-> "ok", ST |-> <<S0>>, rng |-> g0]
       ELSE IF n_sims < 0
            \* np.random.randn(n_sims) raises on a negative dimension
            THEN [status |-> "ValueError", ST |-> <<>>, rng |-> g0]
       ELSE LET drift == ((mu - (sigma * sigma) \div 20000) * T) \div 10000
                draw == np_random_randn(g0, n_sims)
                vol == (sigma * np_sqrt(T)) \div 10000
            IN [status |-> "ok",
                ST |-> [i \in 1..n_sims |->
                          (S0 * np_exp(drift + (vol * draw.z[i]) \div 10)) \div 10000],
                rng |-> draw.rng]

----------------------------------------------------------------------------
(* Monte Carlo analytics *)

RECURSIVE SeqSum(_)
SeqSum(a) == IF a = <<>> THEN 0 ELSE Head(a) + SeqSum(Tail(a))

\* ndarray.mean(); nan for an empty array
np_mean(a) == IF Len(a) = 0 THEN NaN ELSE Frac(SeqSum(a), Len(a))

RECURSIVE insert_sorted(_, _)
insert_sorted(x, a) ==
    IF a = <<>> THEN <<x>>
    ELSE IF x <= Head(a) THEN <<x>> \o a
    ELSE <<Head(a)>> \o insert_sorted(x, Tail(a))

RECURSIVE np_sort(_)
np_sort(a) == IF a = <<>> THEN <<>> ELSE insert_sorted(Head(a), np_sort(Tail(a)))

\* np.median; nan for an empty array
np_median(a) ==
    LET n == Len(a)
        s == np_sort(a)
    IN IF n = 0 THEN NaN
       ELSE IF n % 2 = 1 THEN Frac(s[(n + 1) \div 2], 1)
       ELSE Frac(s[n \div 2] + s[n \div 2 + 1], 2)

mean_ge0(a) == np_mean([i \in 1..Len(a) |-> IF a[i] >= 0 THEN 1 ELSE 0])

\* (a > 0).mean() and (a < 0).mean()
mean_gt0(a) == np_mean([i \in 1..Len(a) |-> IF a[i] > 0 THEN 1 ELSE 0])
mean_lt0(a) == np_mean([i \in 1..Len(a) |-> IF a[i] < 0 THEN 1 ELSE 0])

\* expected_metrics_via_mc run with the global generator in state g
expected_metrics_via_mc(g, ls, S0, mu, sigma, T_days, n_sims) ==
    LET sim == simulate_ST(g, S0, mu, sigma, T_days, n_sims, 42)
    IN IF sim.status # "ok"
       THEN [status |-> sim.status, rng |-> sim.rng, sim_payoffs |-> <<>>,
             metrics |-> NoMetrics]
       ELSE LET pays == [i \in 1..Len(sim.ST) |-> combined_payoff(<<sim.ST[i]>>, ls)[1]]
            IN [status |-> "ok", rng |-> sim.rng, sim_payoffs |-> pays,
                metrics |-> [ev |-> np_mean(pays),
                             prob_profit |-> mean_gt0(pays),
                             median |-> np_median(pays),
                             downside_pct |-> mean_lt0(pays)]]

----------------------------------------------------------------------------
(* Input domains *)

LegTypes == {"C", "P", "X"}             \* "X": a type that is neither call nor put
LegSet ==
    { Leg(t, K, pr, ql[1], ql[2]) :
        t \in LegTypes, K \in {100, 110}, pr \in {0, 15},
        ql \in {<<1, TRUE>>, <<2, TRUE>>, <<1, FALSE>>} }
PriceArrays == { <<>>, <<105>>, <<95, 115>>, <<95, 105, 115>> }

StrategyIds == {"Straddle", "Strangle", "IronCondor", "BullCallSpread", "Butterfly"}
Strikes == {1, 150, 200, 201, 400, 401, 1000, 25000}
Premiums == {0, 360, 380}
Qtys == {1, 2}

CurveValues == {-10, 0, 10, 30}

NoInp == [strategy |-> "", K |-> 0, p_call |-> 0, p_put |-> 0, qty |-> 0]
NoArgs == [legs |-> <<>>, S0 |-> 0, mu |-> 0, sigma |-> 0, T_days |-> 0,
           n_sims |-> 0, seed |-> 0]
NoRef == [set |-> FALSE, own |-> FALSE, args |-> NoArgs, status |-> "ok", metrics |-> NoMetrics]

RngStates == 0..7

MaxSims == 2        \* largest sample count of a simulation

\* a long call bought for nothing, and a long straddle
McLegs == { << Leg("C", 1000, 0, 1, TRUE) >>,
            << Leg("C", 1000, 200, 1, TRUE), Leg("P", 1000, 150, 1, TRUE) >> }
SimCounts == -1..MaxSims
\* simulate_ST is called with any volatility and horizon
Sigmas == {0, 1800}
Horizons == {-1, 0, 9}
\* expected_metrics_via_mc is called with these
AnalyzeSigmas == {1800}
AnalyzeHorizons == {0, 9}
Seeds == {42, 7}

----------------------------------------------------------------------------
(* Operations of the payoff model, the builder and the breakeven finder.   *)
(* They are pure functions: Init draws one call and its arguments, and the *)
(* call's action runs it.                                                  *)

McIdle ==
    /\ rng0 = rng
    /\ mcArgs = NoArgs
    /\ ST = <<>>
    /\ sim_payoffs = <<>>
    /\ metrics = NoMetrics
    /\ ref = NoRef

InitCombined ==
    /\ op = "combined_payoff"
    /\ \E n \in 0..MaxLegs : legs \in [1..n -> LegSet]
    /\ S \in PriceArrays
    /\ inp = NoInp

InitBuild ==
    /\ op = "build"
    /\ inp \in [strategy : StrategyIds \cup {"Collar"}, K : Strikes,
                p_call : Premiums, p_put : Premiums, qty : Qtys]
    /\ S = <<>>
    /\ legs = <<>>

InitBreakevens ==
    /\ op = "breakevens"
    /\ \E n \in 0..MaxGrid, h \in {5, 10} : S = [i \in 1..n |-> 100 + (i - 1) * h]
    /\ legs = <<>>
    /\ inp = NoInp

\* the script's grid is np.linspace(lo, hi, n); here with a whole-point step h,
\* centred on the strike (off = 0) or not.  The premiums sum to at least h/2,
\* so a centred grid reaching beyond the straddle's breakevens always has a
\* point at or between them.
InitChart ==
    /\ op = "chart"
    /\ inp \in [strategy : {"Straddle", "Strangle", "BullCallSpread"}, K : {1000, 1001},
                p_call : {2, 3}, p_put : {0, 1, 3}, qty : Qtys]
    /\ \E n \in 2..MaxGrid, h \in {2, 4}, off \in {0, 1} :
          LET lo == inp.K - ((n - 1) * h) \div 2 + off
          IN S = linspace(lo, lo + (n - 1) * h, n)
    /\ legs = <<>>

Init ==
    /\ status = "pending"
    /\ InitCombined \/ InitBuild \/ InitBreakevens \/ InitChart
    /\ label = ""
    /\ payoff = <<>>
    /\ bes = <<>>
    /\ rng = 0
    /\ McIdle

\* combined_payoff(S, legs) called on its own
CombinedPayoff ==
    /\ op = "combined_payoff" /\ status = "pending"
    /\ payoff' = combined_payoff(S, legs)
    /\ status' = "ok"
    /\ UNCHANGED <<op, S, legs, inp, label, bes>>
    /\ UNCHANGED mcVars

\* build_strategy_from_radio(strategy, K, p_call, p_put, qty)
BuildStrategy ==
    /\ op = "build" /\ status = "pending"
    /\ LET r == build_strategy_from_radio(inp.strategy, inp.K, inp.p_call, inp.p_put, inp.qty)
       IN /\ legs' = r.legs
          /\ label' = r.label
    /\ status' = "ok"
    /\ UNCHANGED <<op, S, inp, payoff, bes>>
    /\ UNCHANGED mcVars

\* breakevens(S, payoff) on an ascending grid and any curve over it
FindBreakevens ==
    /\ op = "breakevens" /\ status = "pending"
    /\ \E pay \in [1..Len(S) -> CurveValues] :
          /\ payoff' = pay
          /\ bes' = breakevens(S, pay)
    /\ status' = "ok"
    /\ UNCHANGED <<op, S, legs, inp, label>>
    /\ UNCHANGED mcVars

\* the script's payoff chart: build the strategy, price it over the grid,
\* find the breakevens of the curve
PayoffChart ==
    /\ op = "chart" /\ status = "pending"
    /\ LET r == build_strategy_from_radio(inp.strategy, inp.K, inp.p_call, inp.p_put, inp.qty)
           pay == combined_payoff(S, r.legs)
       IN /\ legs' = r.legs
          /\ label' = r.label
          /\ payoff' = pay
          /\ bes' = breakevens(S, pay)
    /\ status' = "ok"
    /\ UNCHANGED <<op, S, inp>>
    /\ UNCHANGED mcVars

Next == CombinedPayoff \/ BuildStrategy \/ FindBreakevens \/ PayoffChart

Spec == Init /\ [][Next]_vars

----------------------------------------------------------------------------
(* Claims about the payoff model *)

ValidLeg(leg) == leg.type \in {"C", "P"}
Ran(o) == op = o /\ status # "pending"

\* C1 (as claimed): combined_payoff given a leg whose type is neither call
\* nor put fails with InvalidLeg and returns no payoff.
C1_InvalidLegRejected ==
    (op = "combined_payoff" /\ status # "pending"
        /\ \E i \in 1..Len(legs) : ~ValidLeg(legs[i]))
    => status = "InvalidLeg"

\* one leg's payoff at one price, as the payoff formulas state it (tenths)
LegPayoffAt(s, leg) ==
    LET intrinsic == IF leg.type = "C" THEN ToTenths(Max(s - leg.K, 0))
                     ELSE ToTenths(Max(leg.K - s, 0))
    IN IF leg.long THEN leg.qty * (intrinsic - leg.premium)
       ELSE leg.qty * (leg.premium - intrinsic)

RECURSIVE SumLegsAt(_, _)
SumLegsAt(s, ls) == IF ls = <<>> THEN 0 ELSE LegPayoffAt(s, Head(ls)) + SumLegsAt(s, Tail(ls))

Perms(n) == { f \in [1..n -> 1..n] : \A i, j \in 1..n : f[i] = f[j] => i = j }
Permuted(ls, f) == [i \in 1..Len(ls) |-> ls[f[i]]]

\* C2: for valid legs combined_payoff is, at every price of S, the sum of the
\* legs' own call/put payoffs; it is the same for every order of the legs; and
\* it is 0 everywhere for the empty list.
C2_SumOfLegPayoffs ==
    (Ran("combined_payoff") /\ \A i \in 1..Len(legs) : ValidLeg(legs[i]))
    => /\ Len(payoff) = Len(S)
       /\ \A i \in 1..Len(S) : payoff[i] = SumLegsAt(S[i], legs)
       /\ \A f \in Perms(Len(legs)) : combined_payoff(S, Permuted(legs, f)) = payoff
       /\ legs = <<>> => \A i \in 1..Len(S) : payoff[i] = 0

\* C2 witness: two different valid legs, one short, priced over several prices
C2_Witness ==
    /\ Ran("combined_payoff")
    /\ Len(legs) = 2 /\ Len(S) >= 2
    /\ legs[1].type = "C" /\ legs[2].type = "P"
    /\ ~legs[1].long /\ legs[2].long
    /\ \E i \in 1..Len(S) : payoff[i] # 0

----------------------------------------------------------------------------
(* Claims about the strategy builder *)

BuiltBull == Ran("build") /\ inp.strategy = "BullCallSpread"
BuiltStrangle == Ran("build") /\ inp.strategy = "Strangle"

\* C3 (as claimed): the bull call spread is a long call at max(1, K-200) with
\* premium 0.9*p_call and a short call at max(1, K+200) with premium 0.5*p_call.
C3_BullCallBothClamped ==
    BuiltBull
    => /\ Len(legs) = 2
       /\ legs[1].type = "C" /\ legs[1].long
       /\ legs[1].K = Max(1, inp.K - 200)
       /\ legs[1].premium = Times(inp.p_call, 9)
       /\ legs[2].type = "C" /\ ~legs[2].long
       /\ legs[2].K = Max(1, inp.K + 200)
       /\ legs[2].premium = Times(inp.p_call, 5)

\* C3 (amended): the long call is at max(1, K-200) and the short call is 400
\* above the long call's strike, which is K+200 exactly when K >= 201;
\* premiums 0.9*p_call and 0.5*p_call.
C3_BullCallWidthKept ==
    BuiltBull
    => /\ Len(legs) = 2
       /\ legs[1].type = "C" /\ legs[1].long
       /\ legs[1].K = Max(1, inp.K - 200)
       /\ legs[1].premium = Times(inp.p_call, 9)
       /\ legs[2].type = "C" /\ ~legs[2].long
       /\ legs[2].K = Max(1, inp.K - 200) + 400
       /\ (legs[2].K = inp.K + 200) <=> (inp.K >= 201)
       /\ legs[2].premium = Times(inp.p_call, 5)

\* C3 witness: a bull call spread built for a strike where the long strike is clamped
C3_Witness == BuiltBull /\ inp.K <= 200 /\ inp.p_call > 0 /\ legs[1].K = 1

\* C4 (as claimed): the strangle is a long put at exactly K-400 with premium
\* 0.6*p_put and a long call at exactly K+400 with premium 0.6*p_call, both
\* with the given quantity, and the label embeds those two strikes.
C4_StrangleExactStrikes ==
    BuiltStrangle
    => /\ legs = << Leg("P", inp.K - 400, Times(inp.p_put, 6), inp.qty, TRUE),
                    Leg("C", inp.K + 400, Times(inp.p_call, 6), inp.qty, TRUE) >>
       /\ label = "Long Strangle (" \o ToString(inp.K - 400) \o "/"
                    \o ToString(inp.K + 400) \o ")"

\* C4 (amended): the long put is at max(1, K-400), which is K-400 exactly when
\* K >= 401; the long call is at exactly K+400; premiums 0.6*p_put and
\* 0.6*p_call, the given quantity; the label embeds the two legs' strikes.
C4_StranglePutClamped ==
    BuiltStrangle
    => /\ legs = << Leg("P", Max(1, inp.K - 400), Times(inp.p_put, 6), inp.qty, TRUE),
                    Leg("C", inp.K + 400, Times(inp.p_call, 6), inp.qty, TRUE) >>
       /\ (legs[1].K = inp.K - 400) <=> (inp.K >= 401)
       /\ label = "Long Strangle (" \o ToString(legs[1].K) \o "/"
                    \o ToString(legs[2].K) \o ")"

\* C4 witness: a strangle built for a strike where the put strike is clamped
C4_Witness == BuiltStrangle /\ inp.K <= 400 /\ legs[1].K = 1 /\ inp.qty = 2

----------------------------------------------------------------------------
(* Claims about the breakeven finder *)

StraddleOnSymmetricGrid ==
    /\ Ran("chart") /\ inp.strategy = "Straddle"
    /\ inp.p_call + inp.p_put > 0 /\ inp.qty > 0
    /\ S[1] + S[Len(S)] = 2 * inp.K
    /\ S[1] < inp.K - (inp.p_call + inp.p_put)
    /\ S[Len(S)] > inp.K + (inp.p_call + inp.p_put)

\* C5 (as claimed): for a long straddle over a symmetric grid reaching beyond
\* both K-(c+p) and K+(c+p), breakevens returns exactly two prices, one within
\* a grid step of each.
C5_StraddleTwoBreakevens ==
    StraddleOnSymmetricGrid
    => LET h == S[2] - S[1]
           w == inp.p_call + inp.p_put
       IN /\ Len(bes) = 2
          /\ \E i, j \in 1..Len(bes) :
                /\ i # j
                /\ FracNear(bes[i], inp.K - w, h)
                /\ FracNear(bes[j], inp.K + w, h)

NeverCrossesZero(pay) ==
    \/ \A i \in 1..Len(pay) : pay[i] >= 0
    \/ \A i \in 1..Len(pay) : pay[i] <= 0

\* C6 (as claimed): breakevens returns the empty list for every curve that is
\* nowhere negative or nowhere positive, and a non-empty result is ascending.
C6_NoCrossingNoBreakeven ==
    (Ran("breakevens") \/ Ran("chart"))
    => /\ NeverCrossesZero(payoff) => bes = <<>>
       /\ \A i \in 1..(Len(bes) - 1) : FracLe(bes[i], bes[i+1])

----------------------------------------------------------------------------
(* Operations of the simulator and the analytics.  Calls follow one        *)
(* another in one process and share its generator.                         *)

InitMC ==
    /\ op = "init"
    /\ status = "ok"
    /\ S = <<>> /\ legs = <<>> /\ inp = NoInp /\ label = "" /\ payoff = <<>> /\ bes = <<>>
    /\ rng \in RngStates        \* numpy seeds the generator from OS entropy at import
    /\ McIdle

\* simulate_ST(S0, mu, sigma, T_days, n_sims, seed)
Simulate ==
    \E sigma \in Sigmas, T_days \in Horizons, n_sims \in SimCounts, seed \in Seeds :
        LET r == simulate_ST(rng, 1000, 600, sigma, T_days, n_sims, seed)
        IN /\ op' = "simulate"
           /\ mcArgs' = [legs |-> <<>>, S0 |-> 1000, mu |-> 600, sigma |-> sigma,
                         T_days |-> T_days, n_sims |-> n_sims, seed |-> seed]
           /\ status' = r.status
           /\ ST' = r.ST
           /\ rng0' = rng
           /\ rng' = r.rng
           /\ sim_payoffs' = <<>>
           /\ metrics' = NoMetrics
           /\ ref' = [ref EXCEPT !.own = FALSE]
           /\ UNCHANGED pureVars

\* expected_metrics_via_mc(legs, S0, mu, sigma, T_days, n_sims); the call may be
\* the one kept in ref for comparison with later calls
Analyze ==
    \E ls \in McLegs, sigma \in AnalyzeSigmas, T_days \in AnalyzeHorizons,
       n_sims \in SimCounts, keep \in BOOLEAN :
        LET r == expected_metrics_via_mc(rng, ls, 1000, 600, sigma, T_days, n_sims)
            a == [legs |-> ls, S0 |-> 1000, mu |-> 600, sigma |-> sigma,
                  T_days |-> T_days, n_sims |-> n_sims, seed |-> 42]
        IN /\ op' = "analyze"
           /\ mcArgs' = a
           /\ status' = r.status
           /\ ST' = <<>>
           /\ rng0' = rng
           /\ rng' = r.rng
           /\ sim_payoffs' = r.sim_payoffs
           /\ metrics' = r.metrics
           /\ ref' = IF keep THEN [set |-> TRUE, own |-> TRUE, args |-> a,
                                   status |-> r.status, metrics |-> r.metrics]
                     ELSE [ref EXCEPT !.own = FALSE]
           /\ UNCHANGED pureVars

NextMC == Simulate \/ Analyze

SpecMC == InitMC /\ [][NextMC]_vars

----------------------------------------------------------------------------
(* Claims about the analytics and the simulator *)

Positives(a) == Cardinality({i \in 1..Len(a) : a[i] > 0})
Negatives(a) == Cardinality({i \in 1..Len(a) : a[i] < 0})
Zeros(a) == Cardinality({i \in 1..Len(a) : a[i] = 0})
Analyzed == op = "analyze" /\ status = "ok" /\ Len(sim_payoffs) > 0

\* C7: over a non-empty set of simulated payoffs, prob_profit is the share of
\* payoffs > 0 and downside_pct the share of payoffs < 0; both lie in [0,1],
\* their sum is at most 1 and is below 1 exactly when some payoff is 0; with a
\* zero-day horizon there is one sample and each of the two is 0 or 1.
C7_ProfitAndDownsideShares ==
    Analyzed
    => LET N == Len(sim_payoffs)
           pp == metrics.prob_profit
           dp == metrics.downside_pct
           sumNum == pp.num * dp.den + dp.num * pp.den
           sumDen == pp.den * dp.den
       IN /\ pp = Frac(Positives(sim_payoffs), N)
          /\ dp = Frac(Negatives(sim_payoffs), N)
          /\ pp.den > 0 /\ 0 <= pp.num /\ pp.num <= pp.den
          /\ dp.den > 0 /\ 0 <= dp.num /\ dp.num <= dp.den
          /\ sumNum <= sumDen
          /\ (sumNum < sumDen) <=> (Zeros(sim_payoffs) > 0)
          /\ mcArgs.T_days = 0
                => /\ N = 1
                   /\ pp \in {Frac(0, 1), Frac(1, 1)}
                   /\ dp \in {Frac(0, 1), Frac(1, 1)}

\* C7 witness: an analysis of several samples, some winning and some exactly 0
C7_Witness ==
    /\ Analyzed
    /\ Len(sim_payoffs) >= 2
    /\ Positives(sim_payoffs) > 0
    /\ Zeros(sim_payoffs) > 0
    /\ metrics.prob_profit.den = 2

\* C8: an analysis returns (or raises) the same as the earlier analysis kept in
\* ref whenever its arguments are the same, whatever ran in between.
C8_AnalyzeDeterministic ==
    (op = "analyze" /\ ref.set /\ ~ref.own /\ ref.args = mcArgs)
    => /\ status = ref.status
       /\ metrics = ref.metrics

\* C8 witness: an analysis that drew variates, entered with the generator where
\* another call had left it, with the arguments of the analysis kept in ref
C8_Witness ==
    /\ Analyzed
    /\ ref.set /\ ~ref.own /\ ref.args = mcArgs
    /\ mcArgs.T_days > 0 /\ mcArgs.n_sims >= 2
    /\ rng0 # rng
    /\ rng0 # np_random_seed(42)
    /\ Positives(sim_payoffs) > 0 /\ Negatives(sim_payoffs) > 0

SimulatorRan == op \in {"simulate", "analyze"}

\* C9 (as claimed): the simulator and the analytics reject, with
\* InvalidParameters and before drawing a variate or pricing a sample, a
\* volatility <= 0, a negative sample count and a negative horizon; and an
\* analysis of 0 samples over a positive horizon returns no record.
C9_InvalidParametersRejected ==
    /\ (SimulatorRan /\ (mcArgs.sigma <= 0 \/ mcArgs.n_sims < 0 \/ mcArgs.T_days < 0))
       => /\ status = "InvalidParameters"
          /\ rng = rng0
          /\ ST = <<>> /\ sim_payoffs = <<>>
    /\ (op = "analyze" /\ mcArgs.n_sims = 0 /\ mcArgs.T_days > 0)
       => status # "ok"

\* C10 (as claimed): a call of the simulator or the analytics leaves the
\* process-wide generator in the state it found it in.
C10_GeneratorUntouched == SimulatorRan => rng = rng0

====
